---- MODULE Spec2Model ----
(***************************************************************************)
(* voice_assistant/transcription.py: the provider dispatch of              *)
(* transcribe_audio, its five adapters and the process-wide readiness      *)
(* flag of the FastWhisperAPI adapter, as a state machine of threads that  *)
(* call transcribe_audio.                                                  *)
(***************************************************************************)
EXTENDS Integers, FiniteSets, Sequences, TLC

\* ------------------------------------------------------------------ bounds
NumThreads == 2
MaxCalls == 2

Threads == 1..NumThreads

\* ------------------------------------------------------------------ values
\* Python values a call can hand back: a str or None.
Str(s) == [type |-> "str", val |-> s]
None == [type |-> "NoneType", val |-> ""]
IsStr(v) == v.type = "str"

\* What a backend can put in a text field.
Texts == {Str("hello"), None}

LocalModelText == Str("Transcribed text from local model")
NoTextFound == Str("No text found in the response.")
GenericError == "Error in transcribing audio"
NotRunning == "FastWhisperAPI is not running"
Unsupported == "Unsupported transcription model"

\* The six provider identifiers of the if/elif chain, and one outside it
\* (the docstring's 'fastwhisper' is not a branch of the chain).
Providers == {"openai", "groq", "deepgram", "gemini", "fastwhisperapi", "local"}
Models == Providers \cup {"fastwhisper"}

\* ------------------------------------------------------------------ inputs
\* requests.get(infopoint): a transport error, or a response with a status.
GetOutcomes ==
  { [raised |-> TRUE, status_code |-> 0],
    [raised |-> FALSE, status_code |-> 200],
    [raised |-> FALSE, status_code |-> 500] }

\* requests.post(endpoint, ...): a transport error, or a response whose body
\* is no JSON ("invalid"), a JSON array ("array") or a JSON object ("object").
EmptyObject == [k \in {} |-> None]
PostOutcomes ==
  { [raised |-> TRUE, status_code |-> 0, json |-> "invalid", object |-> EmptyObject] }
  \cup { [raised |-> FALSE, status_code |-> 200, json |-> "object", object |-> [text |-> v]]
         : v \in Texts }
  \cup { [raised |-> FALSE, status_code |-> 200, json |-> "object", object |-> EmptyObject],
         [raised |-> FALSE, status_code |-> 401, json |-> "object",
          object |-> [detail |-> Str("Invalid authorization credentials")]],
         [raised |-> FALSE, status_code |-> 500, json |-> "invalid", object |-> EmptyObject],
         [raised |-> FALSE, status_code |-> 200, json |-> "array", object |-> EmptyObject] }

NoResponse == [raised |-> FALSE, status_code |-> 0, json |-> "none", object |-> EmptyObject]

\* client.audio.transcriptions.create / litellm.completion: an SDK exception
\* (auth, quota, network), or a reply whose text is a str or None.
SdkOutcomes ==
  { [raised |-> TRUE, text |-> None] } \cup { [raised |-> FALSE, text |-> v] : v \in Texts }

\* deepgram ... transcribe_file + json.loads(response.to_json()): an SDK
\* exception, or the parsed data.
DeepgramData ==
  { [results |-> [channels |-> << [alternatives |-> << [transcript |-> v] >>] >>]]
    : v \in Texts }
  \cup { [err_code |-> Str("INVALID_AUTH")],
         [results |-> [channels |-> << >>]] }
DeepgramOutcomes ==
  { [raised |-> TRUE, data |-> EmptyObject] }
  \cup { [raised |-> FALSE, data |-> d] : d \in DeepgramData }

\* ------------------------------------------------------------------ state
VARIABLES
  checked_fastwhisperapi, \* the module global of line 16
  call,                   \* per thread: the transcribe_audio call it is in
  leaked,                 \* handles opened at line 110, never closed by the code, not yet finalized
  calls,                  \* calls started so far
  probes,                 \* GET /info requests issued so far
  okProbes,               \* of those, the ones that returned 200
  trueWrites,             \* executions of line 29
  transitions             \* changes of the flag from False to True

vars == <<checked_fastwhisperapi, call, leaked, calls, probes, okProbes, trueWrites, transitions>>

\* How a call ended: a returned value, or a raised error with its message; cause
\* is the exception the adapter raised, which the caller never sees.
NoOutcome == [kind |-> "none", value |-> None, error |-> "", cause |-> "none"]
Returned(v) == [kind |-> "return", value |-> v, error |-> "", cause |-> "none"]

\* A thread that is in no call.
Idle ==
  [ pc |-> "idle", model |-> "none", adapter |-> "none", startFlag |-> FALSE,
    saw |-> "unread", probe |-> "none", probes |-> 0, invocations |-> 0,
    response |-> NoResponse, handle |-> 0, outcome |-> NoOutcome ]

Init ==
  /\ checked_fastwhisperapi = FALSE
  /\ call = [t \in Threads |-> Idle]
  /\ leaked = 0
  /\ calls = 0
  /\ probes = 0
  /\ okProbes = 0
  /\ trueWrites = 0
  /\ transitions = 0

\* ------------------------------------------------------------------ helpers
\* The if/elif chain of transcribe_audio: the branch a model value takes.
\* A chain whose 'local' branch calls the local service's adapter.
RouteLocalToService(m) ==
  CASE m = "openai" -> "openai"
    [] m = "groq" -> "groq"
    [] m = "deepgram" -> "deepgram"
    [] m = "gemini" -> "gemini"
    [] m = "fastwhisperapi" -> "fastwhisperapi"
    [] m = "local" -> "fastwhisperapi"
    [] OTHER -> "else"

Route(m) ==
  CASE m = "openai" -> "openai"
    [] m = "groq" -> "groq"
    [] m = "deepgram" -> "deepgram"
    [] m = "gemini" -> "gemini"
    [] m = "fastwhisperapi" -> "fastwhisperapi"
    [] m = "local" -> "local"
    [] OTHER -> "else"

\* The except clause of transcribe_audio: whatever was raised inside the try
\* leaves the call as Exception("Error in transcribing audio").
Caught(exc) == [kind |-> "raise", value |-> None, error |-> GenericError, cause |-> exc]

\* An adapter for the local service that leaves out line 107.
EntryWithoutCheck(adapter) ==
  CASE adapter = "openai" -> "sdk_open"
    [] adapter = "groq" -> "sdk_open"
    [] adapter = "deepgram" -> "dg_read"
    [] adapter = "gemini" -> "gm_read"
    [] adapter = "fastwhisperapi" -> "fw_open"

\* The first statement of each adapter.
Entry(adapter) ==
  CASE adapter = "openai" -> "sdk_open"
    [] adapter = "groq" -> "sdk_open"
    [] adapter = "deepgram" -> "dg_read"
    [] adapter = "gemini" -> "gm_read"
    [] adapter = "fastwhisperapi" -> "fw_check"

\* A check that leaves out the test of line 21.
AlwaysProbe(flag) == TRUE

\* line 21: the probe is made when the flag reads False.
NeedsProbe(flag) == ~flag

\* A probe that leaves out the status test of line 25.
ProbeRaisesOnTransportOnly(r) == r.raised

\* lines 24-28: a transport error or a status other than 200 raises.
ProbeRaises(r) == r.raised \/ r.status_code # 200

\* A check that records a failed probe in the flag.
FlagCachesFailure(r, flag) == IF r.raised \/ r.status_code # 200 THEN FALSE ELSE TRUE

\* lines 23-29: the flag after a probe; line 29 is reached when nothing raised.
FlagAfterProbe(r, flag) == IF ProbeRaises(r) THEN flag ELSE TRUE

\* response_json.get('text') or default: the default replaces a null too.
DictGetOrDefault(d, k, default) == IF k \in DOMAIN d /\ d[k] # None THEN d[k] ELSE default

\* dict.get(key, default): the default stands in for a missing key only.
DictGet(d, k, default) == IF k \in DOMAIN d THEN d[k] ELSE default

\* lines 120-121: response.json() raises on a body that is no JSON, .get is
\* no attribute of a JSON array, and a JSON object answers with its 'text'.
FastWhisperResult(r) ==
  IF r.raised THEN Caught("ConnectionError")
  ELSE IF r.json = "invalid" THEN Caught("JSONDecodeError")
  ELSE IF r.json = "array" THEN Caught("AttributeError")
  ELSE Returned(DictGet(r.object, "text", NoTextFound))

\* line 99: data['results']['channels'][0]['alternatives'][0]['transcript'].
DeepgramTranscript(data) ==
  IF "results" \notin DOMAIN data THEN Caught("KeyError")
  ELSE IF Len(data.results.channels) = 0 THEN Caught("IndexError")
  ELSE Returned(data.results.channels[1].alternatives[1].transcript)

\* The call of thread t ends with outcome o.
Done(c, o) == [c EXCEPT !.pc = "done", !.outcome = o]

\* ------------------------------------------------------------------ operations
Gate == <<checked_fastwhisperapi, probes, okProbes, trueWrites, transitions>>

\* lines 31-63, up to the adapter's first statement: a thread calls
\* transcribe_audio(m, ...). 'local' and an unknown model finish inside the
\* chain; any other model enters its adapter.
transcribe_audio(t) ==
  /\ call[t].pc \in {"idle", "done"}
  /\ calls < MaxCalls
  /\ \E m \in Models :
       LET fresh == [Idle EXCEPT !.model = m, !.adapter = Route(m),
                                 !.startFlag = checked_fastwhisperapi]
       IN call' = [call EXCEPT ![t] =
            CASE Route(m) = "local" -> Done(fresh, Returned(LocalModelText))
              [] Route(m) = "else" -> Done(fresh, Caught(Unsupported))
              [] OTHER -> [fresh EXCEPT !.pc = Entry(Route(m))]]
  /\ calls' = calls + 1
  /\ UNCHANGED <<Gate, leaked>>

\* lines 67 and 78: with open(audio_file_path, "rb").
SdkOpen(t, name) ==
  /\ call[t].pc = "sdk_open"
  /\ call[t].adapter = name
  /\ \E readable \in BOOLEAN :
       call' = [call EXCEPT ![t] =
         IF readable THEN [@ EXCEPT !.pc = "sdk_create", !.handle = 1]
         ELSE Done(@, Caught("FileNotFoundError"))]
  /\ UNCHANGED <<Gate, leaked, calls>>

\* lines 68-73 and 79-85: the one transcriptions.create call; the with block
\* closes the file whether it returns or raises; then transcription.text.
SdkCreate(t, name) ==
  /\ call[t].pc = "sdk_create"
  /\ call[t].adapter = name
  /\ \E r \in SdkOutcomes :
       call' = [call EXCEPT ![t] =
         Done([@ EXCEPT !.invocations = @ + 1, !.handle = 0],
              IF r.raised THEN Caught("APIError") ELSE Returned(r.text))]
  /\ UNCHANGED <<Gate, leaked, calls>>

_transcribe_with_openai(t) == SdkOpen(t, "openai") \/ SdkCreate(t, "openai")

_transcribe_with_groq(t) == SdkOpen(t, "groq") \/ SdkCreate(t, "groq")

\* lines 91-92: the file is opened, read and closed by the with block.
DeepgramRead(t) ==
  /\ call[t].pc = "dg_read"
  /\ \E readable \in BOOLEAN :
       call' = [call EXCEPT ![t] =
         IF readable THEN [@ EXCEPT !.pc = "dg_call"]
         ELSE Done(@, Caught("FileNotFoundError"))]
  /\ UNCHANGED <<Gate, leaked, calls>>

\* lines 94-103: the one transcribe_file call and the descent into its JSON.
DeepgramCall(t) ==
  /\ call[t].pc = "dg_call"
  /\ \E r \in DeepgramOutcomes :
       call' = [call EXCEPT ![t] =
         Done([@ EXCEPT !.invocations = @ + 1],
              IF r.raised THEN Caught("DeepgramError") ELSE DeepgramTranscript(r.data))]
  /\ UNCHANGED <<Gate, leaked, calls>>

_transcribe_with_deepgram(t) == DeepgramRead(t) \/ DeepgramCall(t)

\* lines 130-132: os.environ["GEMINI_MODEL"], then Path.read_bytes(), which
\* opens and closes the file itself.
GeminiRead(t) ==
  /\ call[t].pc = "gm_read"
  /\ \E configured \in BOOLEAN, readable \in BOOLEAN :
       call' = [call EXCEPT ![t] =
         IF ~configured THEN Done(@, Caught("KeyError"))
         ELSE IF ~readable THEN Done(@, Caught("FileNotFoundError"))
         ELSE [@ EXCEPT !.pc = "gm_completion"]]
  /\ UNCHANGED <<Gate, leaked, calls>>

\* lines 134-150: the one litellm.completion call; message.content as it is.
GeminiCompletion(t) ==
  /\ call[t].pc = "gm_completion"
  /\ \E r \in SdkOutcomes :
       call' = [call EXCEPT ![t] =
         Done([@ EXCEPT !.invocations = @ + 1],
              IF r.raised THEN Caught("APIError") ELSE Returned(r.text))]
  /\ UNCHANGED <<Gate, leaked, calls>>

_transcribe_with_gemini(t) == GeminiRead(t) \/ GeminiCompletion(t)

\* line 21: check_fastwhisperapi reads the flag.
ReadFlag(t) ==
  /\ call[t].pc = "fw_check"
  /\ call' = [call EXCEPT ![t] =
       [@ EXCEPT !.saw = IF checked_fastwhisperapi THEN "true" ELSE "false",
                 !.pc = IF NeedsProbe(checked_fastwhisperapi) THEN "fw_probe" ELSE "fw_open"]]
  /\ UNCHANGED <<Gate, leaked, calls>>

\* lines 22-29: the GET /info request; a failure raises, a 200 sets the flag.
Probe(t) ==
  /\ call[t].pc = "fw_probe"
  /\ \E r \in GetOutcomes :
       /\ call' = [call EXCEPT ![t] =
            LET c == [@ EXCEPT !.probes = @ + 1,
                               !.probe = IF r.raised THEN "error"
                                         ELSE IF r.status_code = 200 THEN "200" ELSE "500"]
            IN IF ProbeRaises(r) THEN Done(c, Caught(NotRunning))
               ELSE [c EXCEPT !.pc = "fw_open"]]
       /\ checked_fastwhisperapi' = FlagAfterProbe(r, checked_fastwhisperapi)
       /\ probes' = probes + 1
       /\ okProbes' = okProbes + (IF ~r.raised /\ r.status_code = 200 THEN 1 ELSE 0)
       /\ trueWrites' = trueWrites + (IF ProbeRaises(r) THEN 0 ELSE 1)
  /\ transitions' = transitions
                    + (IF ~checked_fastwhisperapi /\ checked_fastwhisperapi' THEN 1 ELSE 0)
  /\ UNCHANGED <<leaked, calls>>

check_fastwhisperapi(t) == ReadFlag(t) \/ Probe(t)

\* line 110: open(audio_file_path, 'rb'), bound to no name and to no with.
OpenAudio(t) ==
  /\ call[t].pc = "fw_open"
  /\ \E readable \in BOOLEAN :
       call' = [call EXCEPT ![t] =
         IF readable THEN [@ EXCEPT !.pc = "fw_post", !.handle = 1]
         ELSE Done(@, Caught("FileNotFoundError"))]
  /\ UNCHANGED <<Gate, leaked, calls>>

\* A POST step that clears the flag on a transport error, to probe again.
PostClearsFlagOnError(t) ==
  /\ call[t].pc = "fw_post"
  /\ \E r \in PostOutcomes :
       /\ call' = [call EXCEPT ![t] =
            Done([@ EXCEPT !.invocations = @ + 1, !.response = r, !.handle = 0],
                 FastWhisperResult(r))]
       /\ checked_fastwhisperapi' = (IF r.raised THEN FALSE ELSE checked_fastwhisperapi)
  /\ \E finalized \in BOOLEAN : leaked' = leaked + (IF finalized THEN 0 ELSE 1)
  /\ UNCHANGED <<probes, okProbes, trueWrites, transitions, calls>>

\* lines 119-121: the one POST /v1/transcriptions request and its result.
\* Nothing closes the handle of line 110: when the call ends it is closed
\* only if the interpreter has already finalized the file object.
Post(t) ==
  /\ call[t].pc = "fw_post"
  /\ \E r \in PostOutcomes :
       call' = [call EXCEPT ![t] =
         Done([@ EXCEPT !.invocations = @ + 1, !.response = r, !.handle = 0],
              FastWhisperResult(r))]
  /\ \E finalized \in BOOLEAN : leaked' = leaked + (IF finalized THEN 0 ELSE 1)
  /\ UNCHANGED <<Gate, calls>>

_transcribe_with_fastwhisperapi(t) == check_fastwhisperapi(t) \/ OpenAudio(t) \/ Post(t)

\* The interpreter finalizes a file object that line 110 left open.
Finalize ==
  /\ leaked > 0
  /\ leaked' = leaked - 1
  /\ UNCHANGED <<Gate, call, calls>>

Next ==
  \/ \E t \in Threads :
       \/ transcribe_audio(t)
       \/ _transcribe_with_openai(t)
       \/ _transcribe_with_groq(t)
       \/ _transcribe_with_deepgram(t)
       \/ _transcribe_with_gemini(t)
       \/ _transcribe_with_fastwhisperapi(t)
  \/ Finalize

Spec == Init /\ [][Next]_vars

\* ------------------------------------------------------------------ properties
InCall(t) == call[t].pc \notin {"idle", "done"}
Finished(t) == call[t].pc = "done"
ProbeFailed(t) == call[t].probe \in {"500", "error"}
RaisedGeneric(t) == call[t].outcome.kind = "raise" /\ call[t].outcome.error = GenericError

\* C1: for each of the six providers a finished call has returned a str or
\* raised the generic error; it has never returned None.
C1_NeverReturnsNone ==
  \A t \in Threads :
    (Finished(t) /\ call[t].model \in Providers) =>
      \/ call[t].outcome.kind = "return" /\ IsStr(call[t].outcome.value)
      \/ RaisedGeneric(t)

\* A call met a failure: an unknown provider, a failed probe, an exception
\* inside the adapter, or a backend that answered with an error status.
Failed(t) ==
  \/ call[t].model \notin Providers
  \/ ProbeFailed(t)
  \/ call[t].outcome.cause # "none"
  \/ call[t].response.raised
  \/ call[t].response.status_code \in {401, 500}

\* C2: every failure inside a call ends it with the one generic error; no
\* failure yields a returned value, and an unknown provider enters no adapter.
C2_EveryFailureRaisesGeneric ==
  \A t \in Threads :
    /\ (Finished(t) /\ Failed(t)) => RaisedGeneric(t)
    /\ call[t].model \in Models \ Providers =>
         Finished(t) /\ call[t].invocations = 0 /\ call[t].probes = 0

\* C3 as stated: all readiness checks of the process together issue the
\* GET /info probe at most once.
C3_ProbeAtMostOnceInTotal == probes <= 1

\* C3 as amended: a readiness check issues at most one probe, and only after
\* it read the flag as False; a check that read True issues none. Failed
\* probes are not remembered, so there are at most as many probes as calls.
C3_ProbeOnlyWhileUnverified ==
  /\ probes <= calls
  /\ \A t \in Threads :
       /\ call[t].probes <= 1
       /\ call[t].probes = 1 => call[t].saw = "false"
       /\ call[t].saw = "true" => call[t].probes = 0

\* The probe was repeated: two checks each issued one, after reading False.
C3_Witness ==
  /\ probes = 2
  /\ \E t \in Threads : Finished(t) /\ call[t].probes = 1 /\ call[t].saw = "false"

\* C4: the flag starts False, never goes from True back to False, and a call
\* that starts once it is True issues no probe, also when its POST fails.
C4_FlagMonotonic ==
  /\ checked_fastwhisperapi = FALSE
  /\ [][checked_fastwhisperapi => checked_fastwhisperapi']_vars
  /\ [](\A t \in Threads : call[t].startFlag => call[t].probes = 0)

\* A call that started with the flag True failed in its POST on a transport
\* error, issued no probe, and the flag is still True.
C4_Witness ==
  \E t \in Threads :
    /\ Finished(t) /\ call[t].startFlag /\ call[t].response.raised
    /\ RaisedGeneric(t) /\ call[t].probes = 0
    /\ checked_fastwhisperapi

\* C5: a failed probe ends its check by raising, with one probe and no POST;
\* the flag is True, and a check reads it as True, only after a probe
\* returned 200.
C5_ReadyOnlyAfter200 ==
  /\ checked_fastwhisperapi => okProbes >= 1
  /\ \A t \in Threads :
       /\ ProbeFailed(t) =>
            /\ Finished(t) /\ RaisedGeneric(t) /\ call[t].outcome.cause = NotRunning
            /\ call[t].probes = 1 /\ call[t].invocations = 0
       /\ call[t].saw = "true" => okProbes >= 1
       /\ (call[t].adapter = "fastwhisperapi" /\ call[t].pc \in {"fw_open", "fw_post"}) =>
            okProbes >= 1

\* Two checks have failed in their probes, and the flag is still False.
C5_Witness ==
  /\ ~checked_fastwhisperapi
  /\ probes = 2 /\ okProbes = 0 /\ calls = 2
  /\ \E t \in Threads : Finished(t) /\ call[t].probe = "500" /\ RaisedGeneric(t)

\* C6 as stated: the flag is written True at most once.
C6_WrittenTrueAtMostOnce == trueWrites <= 1

\* C6 as amended: the flag goes from False to True at most once, and it is
\* True exactly when that has happened; line 29 may run more than once.
C6_OneTransition ==
  /\ transitions <= 1
  /\ checked_fastwhisperapi <=> transitions = 1
  /\ transitions <= trueWrites

\* Two threads each wrote True after a probe of their own; one transition.
C6_Witness == trueWrites = 2 /\ transitions = 1 /\ okProbes = 2

\* C7: a call is at or past the POST only if it read the flag as True or its
\* own probe returned 200, and some probe has returned 200; a call whose
\* probe failed has made no POST.
C7_PostOnlyWhenReady ==
  \A t \in Threads :
    /\ (call[t].adapter = "fastwhisperapi"
        /\ (call[t].pc \in {"fw_open", "fw_post"} \/ call[t].invocations >= 1)) =>
         /\ call[t].saw = "true" \/ call[t].probe = "200"
         /\ okProbes >= 1
    /\ ProbeFailed(t) => call[t].invocations = 0 /\ Finished(t)

\* One thread is about to POST after its own probe returned 200 while
\* another, which read the flag as False too, has failed in its probe.
C7_Witness ==
  \E t, u \in Threads :
    /\ call[t].pc = "fw_post" /\ call[t].probe = "200"
    /\ ProbeFailed(u) /\ Finished(u) /\ call[u].invocations = 0

\* C8: whenever no call is in progress no audio handle is open.
C8_HandlesClosed ==
  (\A t \in Threads : ~InCall(t)) =>
    /\ leaked = 0
    /\ \A t \in Threads : call[t].handle = 0

\* C9 as stated: a finished call for one of the six providers took exactly
\* one adapter and made exactly one backend invocation, or none for 'local'.
C9_ExactlyOneInvocation ==
  \A t \in Threads :
    (Finished(t) /\ call[t].model \in Providers) =>
      /\ call[t].adapter = call[t].model
      /\ call[t].invocations = (IF call[t].model = "local" THEN 0 ELSE 1)

\* C9 as amended: a call with a known provider takes the adapter of that
\* name and no other, makes at most one backend invocation, and exactly one
\* when a provider other than 'local' returns a value; 'local' returns its
\* constant with no backend contact and no probe; only 'fastwhisperapi'
\* calls read the flag, probe, or change the flag.
C9_AtMostOneInvocation ==
  /\ [](\A t \in Threads :
          /\ call[t].invocations <= 1
          /\ call[t].model \in Providers => call[t].adapter = call[t].model
          /\ (Finished(t) /\ call[t].outcome.kind = "return" /\ call[t].model # "local")
               => call[t].invocations = 1
          /\ call[t].model = "local" =>
               /\ Finished(t) /\ call[t].outcome = Returned(LocalModelText)
               /\ call[t].invocations = 0
          /\ call[t].model # "fastwhisperapi" =>
               call[t].saw = "unread" /\ call[t].probes = 0)
  /\ [][checked_fastwhisperapi' # checked_fastwhisperapi =>
          \E t \in Threads : call[t].model = "fastwhisperapi" /\ call'[t] # call[t]]_vars

\* A 'local' call has returned its constant, and a call to a backend
\* provider has failed before it reached the backend.
C9_Witness ==
  \E t, u \in Threads :
    /\ Finished(t) /\ call[t].model = "local" /\ call[t].outcome.value = LocalModelText
    /\ Finished(u) /\ call[u].model \in {"gemini", "fastwhisperapi"}
    /\ RaisedGeneric(u) /\ call[u].invocations = 0

\* C10: when the local service answers with a JSON object, the call returns
\* exactly the value under 'text' if the object has that key, and the
\* literal fallback, as a normal result, if it has not.
C10_TextOrFallback ==
  \A t \in Threads :
    (Finished(t) /\ call[t].response.json = "object") =>
      /\ call[t].outcome.kind = "return"
      /\ IF "text" \in DOMAIN call[t].response.object
         THEN call[t].outcome.value = call[t].response.object.text
         ELSE call[t].outcome.value = NoTextFound

\* One call returned the 'text' of its response, another the fallback for
\* a response without the key.
C10_Witness ==
  \E t, u \in Threads :
    /\ Finished(t) /\ call[t].response.object = [text |-> Str("hello")]
    /\ call[t].outcome = Returned(Str("hello"))
    /\ Finished(u) /\ call[u].response.json = "object"
    /\ "text" \notin DOMAIN call[u].response.object
    /\ call[u].outcome = Returned(NoTextFound)

====
